---------------------------- MODULE Spec2Model ----------------------------
(***************************************************************************)
(* typc: a console typing trainer (src/main.c).                            *)
(*                                                                         *)
(* The model covers run_typing_trainer: the typing loop (render, getch,    *)
(* key handling), the two renderers draw_scrolled and draw_wrapped, the    *)
(* metrics computed after the loop, calc_speed, and the exits through      *)
(* save_score.  Characters are their byte values.  C arrays are 0-based;   *)
(* the sequences below are 1-based, so text[i] of the source is text[i+1]  *)
(* here.  Floating point values are kept as exact fractions [num, den];    *)
(* a fraction with den = 0 stands for the result of dividing by zero.      *)
(* The terminal is taken to be tall enough for every row that is drawn.    *)
(***************************************************************************)
EXTENDS Integers, Sequences, FiniteSets, TLC

(***************************************************************************)
(* Bounds of the model.                                                    *)
(***************************************************************************)
\* longest reference text drawn by Init
MaxLen == 2
\* printable keystrokes a session may spend beyond the length of its text
MaxRetype == 1
\* the wall clock reads 1..MaxTime
MaxTime == 2
\* the longest command line, counted in arguments after the program name
MaxArgs == 3

(***************************************************************************)
(* Program constants.                                                      *)
(***************************************************************************)
PRINT_CHAR_MIN == 32
PRINT_CHAR_MAX == 126
\* ncurses' code for the backspace key (0407)
KEY_BACKSPACE == 263
char_offset == 20

(***************************************************************************)
(* Inputs.                                                                 *)
(***************************************************************************)
\* bytes of the sample files: 'a' and newline
TextChars == {97, 10}

\* 'a', 'b', 'x'
PrintKeys == {97, 98, 120}
\* KEY_BACKSPACE, DEL, control-H
BackKeys == {KEY_BACKSPACE, 127, 8}
\* Enter, KEY_UP
OtherKeys == {10, 259}
Keys == PrintKeys \cup BackKeys \cup OtherKeys

\* terminal widths getmaxx may report
Widths == {1, 21}

Times == 1..MaxTime

SeqsUpTo(S, n) == UNION {[1..k -> S] : k \in 0..n}
\* the sample files: every text over TextChars up to MaxLen, and "ab"
Texts == SeqsUpTo(TextChars, MaxLen) \cup {<<97, 98>>}

\* Scenario C: a text of length 5 on a terminal 10 columns wide; keys 'a', 'x',
\* backspace and Enter
TextsC == {<<97, 97, 97, 97, 97>>}
WidthsC == {10}
KeysC == {97, 120, KEY_BACKSPACE, 10}

\* wrap mode on the text of Scenario C: terminals narrower than the text, as
\* wide, and wider
WidthsW == {2, 3, 5, 6}

\* the key events of Scenario B: x, backspace, a, b
ScenarioB == <<120, KEY_BACKSPACE, 97, 98>>

VARIABLES
    text,              \* the reference text (file_contents)
    wrap_mode,         \* 1 with --wrap
    current_index,     \* the cursor
    typed,             \* the typed buffer, total_chars + 1 bytes
    total_keystrokes,
    error_count,
    started,
    start_time,
    end_time,
    ch,                \* the last key returned by getch in the typing loop
    screen_width,      \* getmaxx at the last render
    offset,            \* draw_scrolled's offset at the last render
    frame,             \* the cells put on the screen by the last render
    pc,                \* "loop", "getch", "results", "exit"
    cpm, wpm, accuracy, consistency,
    term,              \* "curses" between initscr and endwin, else "cooked"
    exit_status,
    scores,            \* records appended to the score log
    matchedB,          \* history: how many leading key events equal ScenarioB's, -1 once they differ
    argv,              \* the command line after the program name: argv[1], argv[2], ...
    debug,             \* 1 with --debug
    usage_shown,       \* usage() was called
    samples,           \* the sample directory: can it be opened, and its entries
    rand_file          \* the entry picked by random_file_from_dir, {} while there is none

vars == <<text, wrap_mode, current_index, typed, total_keystrokes, error_count,
          started, start_time, end_time, ch, screen_width, offset, frame, pc,
          cpm, wpm, accuracy, consistency, term, exit_status, scores, matchedB,
          argv, debug, usage_shown, samples, rand_file>>

\* what main sets before the session and the session leaves alone
startup == <<argv, debug, usage_shown, samples, rand_file>>

total_chars == Len(text)

(***************************************************************************)
(* Fractions.                                                              *)
(***************************************************************************)
Frac(n, d) == [num |-> n, den |-> d]
NoValue == Frac(0, 1)
\* the fraction f equals the number n / d (d > 0); false when f is a division by zero
FracIs(f, n, d) == f.den # 0 /\ f.num * d = n * f.den

(***************************************************************************)
(* Key classification (run_typing_trainer, the typing loop).               *)
(***************************************************************************)
\* IsBackspace without the control-H alternative
IsBackspace_NoCtrlH(c) == c = KEY_BACKSPACE \/ c = PRINT_CHAR_MAX + 1

IsBackspace(c) == c = KEY_BACKSPACE \/ c = PRINT_CHAR_MAX + 1 \/ c = 8

\* IsPrintable without the lower limit
IsPrintable_NoMin(c) == c <= PRINT_CHAR_MAX

IsPrintable(c) == c >= PRINT_CHAR_MIN /\ c <= PRINT_CHAR_MAX

\* the session state the key handler reads and writes
Session == [current_index |-> current_index, typed |-> typed,
            total_keystrokes |-> total_keystrokes, error_count |-> error_count]

\* HandleKey with the backspace branch missing its "current_index > 0" test
HandleKey_NoFloor(s, c) ==
    IF IsBackspace(c)
    THEN [s EXCEPT !.current_index = s.current_index - 1]
    ELSE IF IsPrintable(c)
    THEN [current_index |-> s.current_index + 1,
          typed |-> [s.typed EXCEPT ![s.current_index + 1] = c],
          total_keystrokes |-> s.total_keystrokes + 1,
          error_count |-> IF c # text[s.current_index + 1]
                          THEN s.error_count + 1 ELSE s.error_count]
    ELSE s

\* HandleKey with a backspace over a mistyped slot taking its error back
HandleKey_Forgive(s, c) ==
    IF IsBackspace(c)
    THEN IF s.current_index > 0
         THEN [s EXCEPT !.current_index = s.current_index - 1,
                        !.error_count =
                            IF s.typed[s.current_index] # text[s.current_index]
                               /\ s.error_count > 0
                            THEN s.error_count - 1 ELSE s.error_count]
         ELSE s
    ELSE IF IsPrintable(c)
    THEN [current_index |-> s.current_index + 1,
          typed |-> [s.typed EXCEPT ![s.current_index + 1] = c],
          total_keystrokes |-> s.total_keystrokes + 1,
          error_count |-> IF c # text[s.current_index + 1]
                          THEN s.error_count + 1 ELSE s.error_count]
    ELSE s

\* HandleKey counting the keystroke only when the key is the expected one
HandleKey_NoCount(s, c) ==
    IF IsBackspace(c)
    THEN IF s.current_index > 0
         THEN [s EXCEPT !.current_index = s.current_index - 1]
         ELSE s
    ELSE IF IsPrintable(c)
    THEN [current_index |-> s.current_index + 1,
          typed |-> [s.typed EXCEPT ![s.current_index + 1] = c],
          total_keystrokes |-> IF c # text[s.current_index + 1]
                               THEN s.total_keystrokes ELSE s.total_keystrokes + 1,
          error_count |-> IF c # text[s.current_index + 1]
                          THEN s.error_count + 1 ELSE s.error_count]
    ELSE s

\* HandleKey comparing the key with the character before the cursor
HandleKey_LateCompare(s, c) ==
    IF IsBackspace(c)
    THEN IF s.current_index > 0
         THEN [s EXCEPT !.current_index = s.current_index - 1]
         ELSE s
    ELSE IF IsPrintable(c)
    THEN [current_index |-> s.current_index + 1,
          typed |-> [s.typed EXCEPT ![s.current_index + 1] = c],
          total_keystrokes |-> s.total_keystrokes + 1,
          error_count |-> IF s.current_index > 0 /\ c # text[s.current_index]
                          THEN s.error_count + 1 ELSE s.error_count]
    ELSE s

\* the branches of the typing loop on the key c
HandleKey(s, c) ==
    IF IsBackspace(c)
    THEN IF s.current_index > 0
         THEN [s EXCEPT !.current_index = s.current_index - 1]
         ELSE s
    ELSE IF IsPrintable(c)
    THEN [current_index |-> s.current_index + 1,
          typed |-> [s.typed EXCEPT ![s.current_index + 1] = c],
          total_keystrokes |-> s.total_keystrokes + 1,
          error_count |-> IF c # text[s.current_index + 1]
                          THEN s.error_count + 1 ELSE s.error_count]
    ELSE s

\* if (!started) { start_time = time(NULL); started = 1; }
StartTimer(st, stime, now) == IF st = 0 THEN now ELSE stime

(***************************************************************************)
(* Rendering.  A cell is a character put on the screen: the text index it  *)
(* shows, its row and column, the character and its style ("correct" is    *)
(* colour pair 1, "error" pair 3, "pending" pair 2 with A_DIM).            *)
(***************************************************************************)
Cell(i, r, c, x, s) == [idx |-> i, row |-> r, col |-> c, chr |-> x, style |-> s]

\* TypedCell with HIDE_ERR false: a mistyped position shows the mistake
TypedCell_ShowTyped(i, r, c) ==
    IF typed[i + 1] = text[i + 1]
    THEN Cell(i, r, c, typed[i + 1], "correct")
    ELSE Cell(i, r, c, typed[i + 1], "error")

\* a typed position: the typed character when right, else the expected one (HIDE_ERR)
TypedCell(i, r, c) ==
    IF typed[i + 1] = text[i + 1]
    THEN Cell(i, r, c, typed[i + 1], "correct")
    ELSE Cell(i, r, c, text[i + 1], "error")

Min(a, b) == IF a < b THEN a ELSE b

Offset(ci, w) == IF ci + char_offset < w THEN 0 ELSE ci - w + char_offset + 1

\* mvaddch and mvprintw put nothing on the screen when the column is off it
OnScreen(c, w) == c >= 0 /\ c < w

draw_scrolled(w, ci) ==
    LET off == Offset(ci, w)
        col == ci - off
        prec == w - col
        done == {TypedCell(i, 0, i - off) :
                    i \in {j \in off..(ci - 1) : j < total_chars /\ OnScreen(j - off, w)}}
        rest == IF OnScreen(col, w)
                THEN {Cell(ci + k, 0, col + k, text[ci + k + 1], "pending") :
                         k \in 0..(Min(prec, total_chars - ci) - 1)}
                ELSE {}
    IN  done \cup rest

\* draw_wrapped with the row and the column of mvaddch exchanged
draw_wrapped_Swapped(w, ci) ==
    {IF i < ci THEN TypedCell(i, i % w, i \div w)
               ELSE Cell(i, i % w, i \div w, text[i + 1], "pending") :
        i \in 0..(total_chars - 1)}

draw_wrapped(w, ci) ==
    {IF i < ci THEN TypedCell(i, i \div w, i % w)
               ELSE Cell(i, i \div w, i % w, text[i + 1], "pending") :
        i \in 0..(total_chars - 1)}

(***************************************************************************)
(* Metrics.                                                                *)
(***************************************************************************)
IsSpace(c) == c = 32 \/ (c >= 9 /\ c <= 13)

\* calc_speed's count of the sample file's non-whitespace characters
NonSpace(t) == Cardinality({i \in 1..Len(t) : ~IsSpace(t[i])})

\* Elapsed without the "elapsed <= 0" floor
Elapsed_NoFloor(e, s) == e - s

Elapsed(e, s) == IF e - s <= 0 THEN 1 ELSE e - s

Cpm(t, elapsed) == Frac(NonSpace(t) * 60, elapsed)

\* words of t: maximal runs of non-whitespace characters
WordCount(t) ==
    Cardinality({i \in 1..Len(t) : ~IsSpace(t[i]) /\ (i = 1 \/ IsSpace(t[i - 1]))})

\* Wpm dividing by the text's average word length, 5 when it has no words
Wpm_AverageWordLength(t, elapsed) ==
    IF WordCount(t) = 0
    THEN Frac(NonSpace(t) * 60, elapsed * 5)
    ELSE Frac(NonSpace(t) * 60 * WordCount(t), elapsed * NonSpace(t))

\* *wpm = *cpm / 5.0
Wpm(t, elapsed) == Frac(NonSpace(t) * 60, elapsed * 5)

\* CorrectChars taken from the error counter instead of the typed buffer
CorrectChars_FromErrors == total_chars - error_count

CorrectChars == Cardinality({i \in 1..total_chars : typed[i] = text[i]})

Accuracy == Frac(CorrectChars * 100, total_chars)

Consistency ==
    IF total_keystrokes > 0
    THEN Frac((total_keystrokes - error_count) * 100, total_keystrokes)
    ELSE Frac(100, 1)

(***************************************************************************)
(* The state on entry to the typing loop, after initscr.                   *)
(***************************************************************************)
InitSession ==
    /\ current_index = 0
    /\ typed = [i \in 1..(total_chars + 1) |-> 0]
    /\ total_keystrokes = 0
    /\ error_count = 0
    /\ started = 0
    /\ start_time = 0
    /\ end_time = 0
    /\ ch = 0              \* ch and screen_width are not read before getch and
    /\ screen_width = 0    \* getmaxx set them
    /\ offset = 0
    /\ frame = {}
    /\ pc = "loop"
    /\ cpm = NoValue
    /\ wpm = NoValue
    /\ accuracy = NoValue
    /\ consistency = NoValue
    /\ term = "curses"
    /\ exit_status = 0
    /\ scores = 0
    /\ matchedB = 0

\* a directory entry of the sample directory
Entry(n, reg, rd, body) == [name |-> n, regular |-> reg, readable |-> rd, contents |-> body]

\* what main did before a session on text: the flag given, the sample picked and read
Started ==
    /\ argv = IF wrap_mode = 1 THEN <<"--wrap">> ELSE << >>
    /\ debug = 0
    /\ usage_shown = FALSE
    /\ samples = [dir_ok |-> TRUE, files |-> {Entry("sample", TRUE, TRUE, text)}]
    /\ rand_file = {Entry("sample", TRUE, TRUE, text)}

Init ==
    /\ text \in Texts
    /\ wrap_mode \in {0, 1}
    /\ InitSession
    /\ Started

(***************************************************************************)
(* The typing loop.                                                        *)
(***************************************************************************)
\* clear, getmaxx, draw, refresh: the loop body up to the blocking getch
Draw(w) ==
    /\ pc = "loop"
    /\ current_index < total_chars
    /\ screen_width' = w
    /\ offset' = IF wrap_mode = 1 THEN offset ELSE Offset(current_index, w)
    /\ frame' = IF wrap_mode = 1 THEN draw_wrapped(w, current_index)
                                 ELSE draw_scrolled(w, current_index)
    /\ pc' = "getch"
    /\ UNCHANGED startup
    /\ UNCHANGED <<text, wrap_mode, current_index, typed, total_keystrokes,
                   error_count, started, start_time, end_time, ch, cpm, wpm,
                   accuracy, consistency, term, exit_status, scores, matchedB>>

\* getch returns c at wall-clock time now; the rest of the loop body
GetKey(c, now) ==
    /\ pc = "getch"
    /\ IsPrintable(c) /\ ~IsBackspace(c) => total_keystrokes < total_chars + MaxRetype
    /\ ch' = c
    /\ started' = 1
    /\ start_time' = StartTimer(started, start_time, now)
    /\ LET s == HandleKey(Session, c)
       IN  /\ current_index' = s.current_index
           /\ typed' = s.typed
           /\ total_keystrokes' = s.total_keystrokes
           /\ error_count' = s.error_count
    /\ matchedB' = IF matchedB >= 0 /\ matchedB < Len(ScenarioB)
                      /\ c = ScenarioB[matchedB + 1]
                   THEN matchedB + 1 ELSE -1
    /\ pc' = "loop"
    /\ UNCHANGED startup
    /\ UNCHANGED <<text, wrap_mode, end_time, screen_width, offset, frame, cpm,
                   wpm, accuracy, consistency, term, exit_status, scores>>

(***************************************************************************)
(* After the loop.                                                         *)
(***************************************************************************)
\* end_time, calc_speed, the metrics and the results screen; the wall clock
\* does not run backwards
Finish(now) ==
    /\ pc = "loop"
    /\ ~(current_index < total_chars)
    /\ now >= start_time
    /\ end_time' = now
    /\ cpm' = Cpm(text, Elapsed(now, start_time))
    /\ wpm' = Wpm(text, Elapsed(now, start_time))
    /\ accuracy' = Accuracy
    /\ consistency' = Consistency
    /\ frame' = {}
    /\ pc' = "results"
    /\ UNCHANGED startup
    /\ UNCHANGED <<text, wrap_mode, current_index, typed, total_keystrokes,
                   error_count, started, start_time, ch, screen_width, offset,
                   term, exit_status, scores, matchedB>>

\* calc_speed cannot reopen the sample file: exit(EXIT_FAILURE)
FinishNoFile(now) ==
    /\ pc = "loop"
    /\ ~(current_index < total_chars)
    /\ now >= start_time
    /\ end_time' = now
    /\ pc' = "exit"
    /\ exit_status' = 1
    /\ UNCHANGED startup
    /\ UNCHANGED <<text, wrap_mode, current_index, typed, total_keystrokes,
                   error_count, started, start_time, ch, screen_width, offset,
                   frame, cpm, wpm, accuracy, consistency, term, scores, matchedB>>

\* "Press any key", endwin, save_score; saved tells whether the log took the record
Dismiss(csv_ok, saved) ==
    /\ pc = "results"
    /\ term' = "cooked"
    /\ pc' = "exit"
    /\ exit_status' = IF csv_ok THEN 0 ELSE 1
    /\ scores' = IF csv_ok /\ saved THEN scores + 1 ELSE scores
    /\ UNCHANGED startup
    /\ UNCHANGED <<text, wrap_mode, current_index, typed, total_keystrokes,
                   error_count, started, start_time, end_time, ch, screen_width,
                   offset, frame, cpm, wpm, accuracy, consistency, matchedB>>

Render == \E w \in Widths : Draw(w)
Key == \E c \in Keys : \E now \in Times : GetKey(c, now)
Results == \E now \in Times : Finish(now)
SpeedFailure == \E now \in Times : FinishNoFile(now)
Leave == \E csv_ok \in BOOLEAN : \E saved \in BOOLEAN : Dismiss(csv_ok, saved)

Next == Render \/ Key \/ Results \/ SpeedFailure \/ Leave

Spec == Init /\ [][Next]_vars

(***************************************************************************)
(* Scenario C: the same program on its text and terminal, scrolling mode.  *)
(***************************************************************************)
InitC ==
    /\ text \in TextsC
    /\ wrap_mode = 0
    /\ InitSession
    /\ Started

RenderC == \E w \in WidthsC : Draw(w)
KeyC == \E c \in KeysC : \E now \in Times : GetKey(c, now)

NextC == RenderC \/ KeyC \/ Results \/ SpeedFailure \/ Leave

SpecC == InitC /\ [][NextC]_vars

(***************************************************************************)
(* Wrap mode on a text of length 5.                                        *)
(***************************************************************************)
InitW ==
    /\ text \in TextsC
    /\ wrap_mode = 1
    /\ InitSession
    /\ Started

RenderW == \E w \in WidthsW : Draw(w)

NextW == RenderW \/ KeyC \/ Results \/ SpeedFailure \/ Leave

SpecW == InitW /\ [][NextW]_vars

(***************************************************************************)
(* Startup: main up to the call of run_typing_trainer.                     *)
(***************************************************************************)
Args == {"--wrap", "--debug", "foo"}
ArgLists == SeqsUpTo(Args, MaxArgs)

\* the sample directory's possible entries: a readable file, a file that
\* cannot be read, and a subdirectory
Entries == {Entry("a", TRUE, TRUE, <<97>>), Entry("b", TRUE, FALSE, <<97>>),
            Entry("d", FALSE, TRUE, << >>)}
SampleDirs == {[dir_ok |-> FALSE, files |-> {}]}
              \cup {[dir_ok |-> TRUE, files |-> F] : F \in SUBSET Entries}

\* main's loop over argv[i], i from 1; st holds wrap_mode, debug and whether
\* the loop has not called usage
RECURSIVE ArgLoop(_, _, _)
ArgLoop(av, i, st) ==
    IF i > Len(av) THEN st
    ELSE IF av[i] = "--wrap"
         THEN ArgLoop(av, i + 1, [st EXCEPT !.wrap_mode = 1])
         ELSE IF av[1] = "--debug"
              THEN ArgLoop(av, i + 1, [st EXCEPT !.debug = 1])
              ELSE [st EXCEPT !.ok = FALSE]

\* argc is Len(av) + 1
main_args(av) ==
    IF Len(av) + 1 > 3
    THEN [wrap_mode |-> 0, debug |-> 0, ok |-> FALSE]
    ELSE ArgLoop(av, 1, [wrap_mode |-> 0, debug |-> 0, ok |-> TRUE])

\* the names collect_dir_entries returns; a directory that cannot be opened
\* gives NULL, which random_file_from_dir treats as it treats no entry
collect_dir_entries(d) == IF d.dir_ok THEN {f \in d.files : f.regular} ELSE {}

\* read_file returning an empty buffer where it cannot read the file
read_file_Empty(f) == [ok |-> TRUE, buffer |-> IF f.readable THEN f.contents ELSE << >>]

read_file(f) ==
    IF f.readable THEN [ok |-> TRUE, buffer |-> f.contents]
                  ELSE [ok |-> FALSE, buffer |-> << >>]

\* the process before main runs: no session, the terminal untouched
InitMain ==
    /\ argv \in ArgLists
    /\ samples \in SampleDirs
    /\ rand_file = {}
    /\ wrap_mode = 0
    /\ debug = 0
    /\ usage_shown = FALSE
    /\ text = << >>
    /\ typed = << >>
    /\ current_index = 0
    /\ total_keystrokes = 0
    /\ error_count = 0
    /\ started = 0
    /\ start_time = 0
    /\ end_time = 0
    /\ ch = 0
    /\ screen_width = 0
    /\ offset = 0
    /\ frame = {}
    /\ pc = "main"
    /\ cpm = NoValue
    /\ wpm = NoValue
    /\ accuracy = NoValue
    /\ consistency = NoValue
    /\ term = "cooked"
    /\ exit_status = 0
    /\ scores = 0
    /\ matchedB = 0

session == <<text, current_index, typed, total_keystrokes, error_count, started,
             start_time, end_time, ch, screen_width, offset, frame, cpm, wpm,
             accuracy, consistency, term, scores, matchedB>>

\* the argument checks; usage exits with EXIT_FAILURE
ParseArgs ==
    /\ pc = "main"
    /\ LET r == main_args(argv)
       IN  /\ wrap_mode' = r.wrap_mode
           /\ debug' = r.debug
           /\ usage_shown' = ~r.ok
           /\ pc' = IF r.ok THEN "select" ELSE "exit"
           /\ exit_status' = IF r.ok THEN 0 ELSE 1
    /\ UNCHANGED <<argv, samples, rand_file>>
    /\ UNCHANGED session

\* random_file_from_dir returns the entry f
SelectFile(f) ==
    /\ pc = "select"
    /\ f \in collect_dir_entries(samples)
    /\ rand_file' = {f}
    /\ pc' = "read"
    /\ UNCHANGED <<argv, samples, wrap_mode, debug, usage_shown, exit_status>>
    /\ UNCHANGED session

\* random_file_from_dir returns NULL: return 1
SelectFails ==
    /\ pc = "select"
    /\ collect_dir_entries(samples) = {}
    /\ pc' = "exit"
    /\ exit_status' = 1
    /\ UNCHANGED <<argv, samples, rand_file, wrap_mode, debug, usage_shown>>
    /\ UNCHANGED session

\* read_file, then either return 1 or run_typing_trainer up to its loop
ReadFile ==
    /\ pc = "read"
    /\ \E f \in rand_file :
         LET r == read_file(f)
         IN  IF r.ok
             THEN /\ text' = r.buffer
                  /\ typed' = [i \in 1..(Len(r.buffer) + 1) |-> 0]
                  /\ term' = "curses"
                  /\ pc' = "loop"
                  /\ exit_status' = exit_status
             ELSE /\ pc' = "exit"
                  /\ exit_status' = 1
                  /\ UNCHANGED <<text, typed, term>>
    /\ UNCHANGED <<argv, samples, rand_file, wrap_mode, debug, usage_shown>>
    /\ UNCHANGED <<current_index, total_keystrokes, error_count, started,
                   start_time, end_time, ch, screen_width, offset, frame, cpm,
                   wpm, accuracy, consistency, scores, matchedB>>

Select == \E f \in Entries : SelectFile(f)

NextMain == ParseArgs \/ Select \/ SelectFails \/ ReadFile
            \/ RenderC \/ KeyC \/ Results \/ SpeedFailure \/ Leave

SpecMain == InitMain /\ [][NextMain]_vars

(***************************************************************************)
(* Properties.                                                             *)
(***************************************************************************)
InLoop == pc \in {"loop", "getch"}
AfterLoop == pc \in {"results", "exit"}
\* this step is the handling of one key returned by getch
KeyStep == pc = "getch" /\ pc' = "loop"
Accepted(c) == IsPrintable(c) \/ IsBackspace(c)

\* C1: the cursor stays in [0, N] in every reachable state, and the typed
\* buffer is only ever written at the cursor, at an index strictly below N
\* (its last slot, index N, keeps its initial 0).
C1_CursorInRange ==
    /\ [](/\ current_index >= 0
          /\ current_index <= total_chars
          /\ DOMAIN typed = 1..(total_chars + 1)
          /\ typed[total_chars + 1] = 0)
    /\ [][typed' # typed =>
             /\ current_index < total_chars
             /\ \A i \in DOMAIN typed : i # current_index + 1 => typed'[i] = typed[i]]_vars

\* C1 witness: a session that went back and then reached the end of a text of length 2
C1_Witness ==
    /\ total_chars = 2
    /\ current_index = total_chars
    /\ total_keystrokes > total_chars

\* C2: no step lowers totalKeystrokes or errorCount.
C2_CountersMonotone ==
    [][/\ total_keystrokes' >= total_keystrokes
       /\ error_count' >= error_count]_vars

\* C2 witness: a backspace has just retreated over a mistyped slot, whose error is still counted
C2_Witness ==
    /\ pc = "loop"
    /\ started = 1
    /\ IsBackspace(ch)
    /\ current_index < total_chars
    /\ typed[current_index + 1] \notin {0, text[current_index + 1]}
    /\ error_count >= 1

\* C3: when a backspace is followed immediately by the entry of the reference
\* character at a mistyped position p, position p becomes correct, the number
\* of correct positions grows by exactly one and errorCount keeps its value;
\* and for the reference "ab" the keys x, backspace, a, b end the session with
\* typed = "ab", totalKeystrokes = 3, errorCount = 1, accuracy = 100 and
\* consistency = 200/3.
C3_Correction ==
    /\ [][(/\ KeyStep
           /\ started = 1
           /\ IsBackspace(ch)
           /\ typed[current_index + 1] \notin {0, text[current_index + 1]}
           /\ IsPrintable(ch')
           /\ ch' = text[current_index + 1])
          => (/\ current_index' = current_index + 1
              /\ typed'[current_index + 1] = text[current_index + 1]
              /\ CorrectChars' = CorrectChars + 1
              /\ error_count' = error_count
              /\ error_count >= 1)]_vars
    /\ []((matchedB = Len(ScenarioB) /\ text = <<97, 98>> /\ pc = "results")
          => (/\ SubSeq(typed, 1, total_chars) = <<97, 98>>
              /\ total_keystrokes = 3
              /\ error_count = 1
              /\ FracIs(accuracy, 100, 1)
              /\ FracIs(consistency, 200, 3)))

\* C3 witness: Scenario B has run to the results screen
C3_Witness ==
    /\ matchedB = Len(ScenarioB)
    /\ text = <<97, 98>>
    /\ pc = "results"
    /\ error_count = 1

\* C4 (as claimed): at every position of every reference text some accepted
\* key enters the reference character without an error, and a session that
\* ends with totalKeystrokes = N and errorCount = 0 shows accuracy = 100 and
\* consistency = 100.
C4_ReferenceTypable ==
    /\ pc = "getch" =>
          \E c \in PRINT_CHAR_MIN..PRINT_CHAR_MAX :
              /\ HandleKey(Session, c).current_index = current_index + 1
              /\ HandleKey(Session, c).error_count = error_count
    /\ (pc = "results" /\ total_keystrokes = total_chars /\ error_count = 0) =>
          (FracIs(accuracy, 100, 1) /\ FracIs(consistency, 100, 1))

\* C5 (as claimed): the timer starts at the first accepted key, a printable
\* key or a backspace; an ignored key does not start it.
C5_TimerStartsOnAcceptedKey ==
    [][(started = 0 /\ started' = 1) => Accepted(ch')]_vars

\* C6 (as claimed): the loop is left exactly when cursor = N, the session
\* only ends as the immediate result of an advance (the last key handled is
\* a printable one), and the end time and the metrics are only taken with
\* cursor = N.
C6_FinishOnlyByAdvance ==
    /\ AfterLoop => current_index = total_chars
    /\ pc = "getch" => current_index < total_chars
    /\ end_time # 0 => current_index = total_chars
    /\ AfterLoop => (started = 1 /\ IsPrintable(ch) /\ ~IsBackspace(ch))

C8_CursorColumnOnScreen ==
    (pc = "getch" /\ wrap_mode = 0 /\ screen_width >= 1) =>
        LET c == current_index - offset
        IN  /\ 0 <= c
            /\ c < screen_width
            /\ \E cell \in frame : cell.idx = current_index /\ cell.col = c
            /\ \A cell \in frame :
                  cell.row = 0 /\ cell.col >= 0 /\ cell.col < screen_width
            /\ offset > 0 => (screen_width - 1) - c <= char_offset

\* C9 (as claimed): Scenario C, scrolling mode, width 10, a text of length
\* 5: the offset computed at every cursor position is 0.
C9_ScenarioCOffsetZero ==
    (pc = "getch" /\ wrap_mode = 0 /\ screen_width = 10 /\ total_chars = 5) =>
        offset = 0

\* C10 (as claimed): WPM is CPM divided by the text's average word length
\* (non-whitespace characters / words), and by 5 only when the text has no
\* words.
C10_WpmByAverageWordLength ==
    pc = "results" =>
        IF WordCount(text) = 0
        THEN wpm.num * cpm.den * 5 = cpm.num * wpm.den
        ELSE wpm.num * cpm.den * NonSpace(text) = cpm.num * WordCount(text) * wpm.den

\* C10 (amended): WPM is CPM divided by the fixed value 5 for every
\* reference text, CPM being 60 times the non-whitespace count over the
\* elapsed seconds.
C10_WpmIsCpmOverFive ==
    pc = "results" =>
        /\ FracIs(cpm, NonSpace(text) * 60, Elapsed(end_time, start_time))
        /\ wpm.den # 0
        /\ wpm.num * cpm.den * 5 = cpm.num * wpm.den

\* C10 witness: results for a text whose one word has 2 characters
C10_Witness ==
    /\ pc = "results"
    /\ text = <<97, 98>>
    /\ WordCount(text) = 1
    /\ NonSpace(text) = 2
    /\ cpm.num > 0

\* C11 (as claimed): for every completed session the elapsed time used is
\* max(1, endTime - startTime) and CPM and WPM are finite and strictly
\* positive, for every reference text.
C11_SpeedsPositive ==
    pc = "results" =>
        /\ cpm.den = (IF end_time - start_time > 1 THEN end_time - start_time ELSE 1)
        /\ cpm.den # 0 /\ wpm.den # 0
        /\ cpm.num * cpm.den > 0
        /\ wpm.num * wpm.den > 0

\* C11 (amended): the elapsed time used is max(1, endTime - startTime), so
\* CPM and WPM are finite (no division by zero) and never negative; they are
\* strictly positive exactly when the text holds a non-whitespace character.
C11_SpeedsFinite ==
    pc = "results" =>
        /\ cpm.den = (IF end_time - start_time > 1 THEN end_time - start_time ELSE 1)
        /\ cpm.den > 0 /\ wpm.den > 0
        /\ cpm.num >= 0 /\ wpm.num >= 0
        /\ cpm.num > 0 <=> (\E i \in 1..total_chars : ~IsSpace(text[i]))
        /\ wpm.num > 0 <=> (\E i \in 1..total_chars : ~IsSpace(text[i]))

\* C11 witness: a session whose end time equals its start time, with positive speeds
C11_Witness ==
    /\ pc = "results"
    /\ started = 1
    /\ end_time = start_time
    /\ cpm.num > 0
    /\ wpm.num > 0

\* C12 (as claimed): the terminal is in curses mode throughout the typing
\* loop and the results screen, and whenever the process has ended after a
\* session was entered the terminal has been restored.
C12_TerminalRestored ==
    /\ pc \in {"loop", "getch", "results"} => term = "curses"
    /\ (pc = "exit" /\ end_time # 0) => term = "cooked"

\* C15 (as claimed): the score log takes at most one record, and only once
\* the results screen has been shown and dismissed; a session that was
\* dismissed without its record reaching the log (a persistence failure)
\* ends with a non-zero exit status.
C15_ScoreAfterResults ==
    /\ scores <= 1
    /\ scores > 0 => (pc = "exit" /\ term = "cooked" /\ end_time # 0)
    /\ (pc = "exit" /\ term = "cooked" /\ end_time # 0 /\ scores = 0) => exit_status # 0

\* C16: a printable key c (32..126) at cursor p < N sets typed[p] = c, adds
\* exactly 1 to totalKeystrokes, adds exactly 1 to errorCount iff
\* c # reference[p], adds exactly 1 to the cursor and leaves every other
\* typed slot as it was.
C16_Advance ==
    [][(KeyStep /\ ch' \in PRINT_CHAR_MIN..PRINT_CHAR_MAX) =>
          /\ current_index < total_chars
          /\ typed'[current_index + 1] = ch'
          /\ total_keystrokes' = total_keystrokes + 1
          /\ error_count' = error_count + (IF ch' # text[current_index + 1] THEN 1 ELSE 0)
          /\ current_index' = current_index + 1
          /\ \A i \in DOMAIN typed : i # current_index + 1 => typed'[i] = typed[i]]_vars

\* C16 witness: a wrong printable key has just been entered
C16_Witness ==
    /\ pc = "loop"
    /\ started = 1
    /\ ch \in PRINT_CHAR_MIN..PRINT_CHAR_MAX
    /\ current_index >= 1
    /\ typed[current_index] = ch
    /\ ch # text[current_index]
    /\ error_count >= 1

\* C17: each backspace variant (KEY_BACKSPACE, 127, 8) lowers the cursor by
\* exactly 1 when it is above 0 and leaves it at 0 otherwise; in both cases
\* every typed slot, totalKeystrokes and errorCount keep their values.
C17_Retreat ==
    [][(KeyStep /\ ch' \in {KEY_BACKSPACE, 127, 8}) =>
          /\ current_index' = (IF current_index > 0 THEN current_index - 1 ELSE 0)
          /\ typed' = typed
          /\ total_keystrokes' = total_keystrokes
          /\ error_count' = error_count]_vars

\* C17 witness: control-H has just retreated over a slot, which keeps its character
C17_Witness ==
    /\ pc = "loop"
    /\ started = 1
    /\ ch = 8
    /\ current_index < total_chars
    /\ typed[current_index + 1] # 0
    /\ total_keystrokes >= 1

\* the frame the renderer of the session's mode draws at width w
FrameAt(w) ==
    IF wrap_mode = 1 THEN draw_wrapped(w, current_index)
                     ELSE draw_scrolled(w, current_index)

\* C18: a key that is neither printable (32..126) nor a backspace variant
\* leaves the cursor, typed, totalKeystrokes and errorCount as they were, so
\* the frame drawn at any width is the one drawn at that width before the key.
C18_IgnoredKey ==
    [][(KeyStep /\ ch' \notin PRINT_CHAR_MIN..PRINT_CHAR_MAX
                /\ ch' \notin {KEY_BACKSPACE, 127, 8}) =>
          /\ current_index' = current_index
          /\ typed' = typed
          /\ total_keystrokes' = total_keystrokes
          /\ error_count' = error_count
          /\ \A w \in Widths \cup WidthsC \cup WidthsW : FrameAt(w)' = FrameAt(w)]_vars

\* C18 witness: the frame drawn on the tick after an ignored key (an arrow key)
C18_Witness ==
    /\ pc = "getch"
    /\ started = 1
    /\ ch = 259
    /\ frame # {}
    /\ total_keystrokes >= 1

\* C19: in wrap mode, for every width >= 1, every text index i in [0, N) is
\* drawn exactly once, at the row and column with i = row * width + column
\* and 0 <= column < width; no two indices share a cell.
C19_WrapLayout ==
    (pc = "getch" /\ wrap_mode = 1 /\ screen_width >= 1) =>
        /\ \A i \in 0..(total_chars - 1) :
              \E cell \in frame :
                  /\ cell.idx = i
                  /\ cell.row >= 0
                  /\ cell.col >= 0 /\ cell.col < screen_width
                  /\ cell.row * screen_width + cell.col = i
        /\ \A c1, c2 \in frame :
              (c1.idx = c2.idx \/ (c1.row = c2.row /\ c1.col = c2.col)) => c1 = c2
        /\ Cardinality(frame) = total_chars

\* C19 witness: a text wrapped over three rows, the last one partly filled
C19_Witness ==
    /\ pc = "getch"
    /\ wrap_mode = 1
    /\ screen_width = 2
    /\ current_index = 3
    /\ \E cell \in frame : cell.idx = 4 /\ cell.row = 2 /\ cell.col = 0

\* positions below the cursor whose typed character differs from the reference
Mismatched ==
    Cardinality({i \in 1..current_index : typed[i] # text[i]})

\* C20: in every reachable state (mismatched positions below the cursor)
\* <= errorCount <= totalKeystrokes; at completion N - correctCount <=
\* errorCount; consistency lies in [0, 100] and is 100 when totalKeystrokes = 0.
C20_ErrorBounds ==
    /\ Mismatched <= error_count
    /\ error_count <= total_keystrokes
    /\ pc = "results" =>
          /\ total_chars - CorrectChars <= error_count
          /\ consistency.den > 0
          /\ 0 <= consistency.num
          /\ consistency.num <= 100 * consistency.den
          /\ total_keystrokes = 0 => FracIs(consistency, 100, 1)

\* C20 witness: results of a session with more errors counted than positions left wrong
C20_Witness ==
    /\ pc = "results"
    /\ error_count > total_chars - CorrectChars
    /\ total_keystrokes > error_count
    /\ total_chars - CorrectChars >= 1

\* C13: once main has checked the command line, it was rejected (usage shown)
\* exactly when it is not made of at most one --wrap and at most one --debug; an
\* accepted one has wrap mode on iff --wrap is present and debug on iff --debug
\* is present; a rejected one has exited non-zero with no session started.
C13_CommandLine ==
    LET given == {argv[i] : i \in 1..Len(argv)}
        wellFormed == /\ Len(argv) <= 2
                      /\ given \subseteq {"--wrap", "--debug"}
                      /\ (Len(argv) = 2 => argv[1] # argv[2])
    IN  pc # "main" =>
          /\ usage_shown <=> ~wellFormed
          /\ ~usage_shown => /\ wrap_mode = 1 <=> "--wrap" \in given
                             /\ debug = 1 <=> "--debug" \in given
          /\ usage_shown => /\ pc = "exit"
                            /\ exit_status # 0
                            /\ term = "cooked"
                            /\ frame = {}

\* the sample directory gives random_file_from_dir nothing to pick
NoSample == \A f \in samples.files : ~samples.dir_ok \/ ~f.regular
\* the picked file cannot be read
Unreadable == \E f \in rand_file : ~f.readable

\* C14: when the sample directory cannot be opened or holds no regular file, or
\* the selected file cannot be read, the terminal is never acquired, nothing is
\* rendered, no score record is written, and the step that meets the failure
\* exits with non-zero status.
C14_StartupFailure ==
    /\ [](NoSample \/ Unreadable =>
            /\ pc \in {"main", "select", "read", "exit"}
            /\ term = "cooked"
            /\ frame = {}
            /\ scores = 0
            /\ pc = "exit" => exit_status # 0)
    /\ [][/\ pc = "select" /\ NoSample => pc' = "exit" /\ exit_status' # 0
          /\ pc = "read" /\ Unreadable => pc' = "exit" /\ exit_status' # 0]_vars

\* the selected file could not be read and the process has exited
C14_Witness ==
    /\ pc = "exit"
    /\ Unreadable
    /\ ~usage_shown
    /\ exit_status = 1

\* C21: whenever the metrics are computed the reference text is not empty
\* (N >= 1, so the divisor of accuracy is not zero), the start time has been
\* set, and totalKeystrokes >= N.
C21_MetricsAfterKeys ==
    pc = "results" =>
        /\ total_chars >= 1
        /\ accuracy.den # 0
        /\ started = 1
        /\ start_time # 0
        /\ total_keystrokes >= total_chars

====
